---- MODULE Spec2Model ----
(***************************************************************************)
(* Model of skills/generate_wuxing_agent_status_report/scripts/index.py:   *)
(* the status-report script (module import, __main__ wrapper, handler).    *)
(*                                                                         *)
(* Text is a sequence of characters.  A literal of the template that holds *)
(* no line break is written as one symbol (an ASCII name for the Chinese   *)
(* literal of the source); the characters the template shares with input   *)
(* text ("-", " ", backquote, line break) are single characters.          *)
(***************************************************************************)
EXTENDS Integers, Sequences, FiniteSets, TLC

VARIABLES
    pc,         \* the statement the run is at
    modules,    \* the modules imported so far
    stdin,      \* the text on standard input
    raw,        \* line 83
    args,       \* line 84, handler's argument
    env,        \* the environment the call of handler observed
    res,        \* what the call of handler gave
    exc,        \* the exception in flight
    stdout,     \* the text written to standard output
    stderr,     \* the text written to standard error
    exitCode,   \* the exit status; -1 while the process runs
    args2, env2, res2   \* a second call of handler, to compare two calls

vars == <<pc, modules, stdin, raw, args, env, res, exc, stdout, stderr, exitCode,
          args2, env2, res2>>

(***************************************************************************)
(* Bounds of the model.                                                    *)
(***************************************************************************)
MaxStrLen == 2
MaxFiles == 2
MaxMemUnits == 2

(***************************************************************************)
(* Text helpers.                                                           *)
(***************************************************************************)
NL == "\n"
\* The backquote character (a string of this notation cannot hold it).
Backtick == "BACKQUOTE"

\* str.strip() with no argument removes leading and trailing whitespace.
Whitespace == {" ", NL, "\t", "\r", "\f"}

RECURSIVE LStrip(_)
LStrip(s) ==
    IF s # <<>> /\ Head(s) \in Whitespace THEN LStrip(Tail(s)) ELSE s

RECURSIVE RStrip(_)
RStrip(s) ==
    IF s # <<>> /\ s[Len(s)] \in Whitespace
    THEN RStrip(SubSeq(s, 1, Len(s) - 1))
    ELSE s

Strip(s) == RStrip(LStrip(s))

RECURSIVE Concat(_)
Concat(ss) == IF ss = <<>> THEN <<>> ELSE Head(ss) \o Concat(Tail(ss))

\* The lines of a text: the pieces between line breaks (a text that ends in
\* a line break has an empty last piece).
FirstBreak(s) ==
    IF \E i \in 1..Len(s) : s[i] = NL
    THEN CHOOSE i \in 1..Len(s) : s[i] = NL /\ \A j \in 1..(i - 1) : s[j] # NL
    ELSE 0

RECURSIVE Lines(_)
Lines(s) ==
    IF FirstBreak(s) = 0 THEN <<s>>
    ELSE <<SubSeq(s, 1, FirstBreak(s) - 1)>> \o Lines(SubSeq(s, FirstBreak(s) + 1, Len(s)))

DigitChar == <<"0", "1", "2", "3", "4", "5", "6", "7", "8", "9">>

\* str(int) of a non-negative integer, in decimal.
RECURSIVE Digits(_)
Digits(n) ==
    IF n < 10 THEN <<DigitChar[n + 1]>>
    ELSE Digits(n \div 10) \o <<DigitChar[(n % 10) + 1]>>

(***************************************************************************)
(* Python values (what json.loads returns, what handler receives).         *)
(***************************************************************************)
Str(s) == [t |-> "str", s |-> s]
Num(n) == [t |-> "num", n |-> n]
Null == [t |-> "null"]
Arr(a) == [t |-> "arr", a |-> a]
\* A dict: its items [k, v] in insertion order, keys (texts) distinct.
Obj(o) == [t |-> "obj", o |-> o]

EmptyList == Arr(<<>>)
EmptyDict == Obj(<<>>)

\* Exceptions: a class and the text str(e) gives.
Exc(cls, msg) == [cls |-> cls, msg |-> msg]
NoExc == [cls |-> "none", msg |-> <<>>]

\* The class hierarchy of the exceptions this script meets.
Parent(cls) ==
    CASE cls = "TimeoutExpired" -> "SubprocessError"
      [] cls = "CalledProcessError" -> "SubprocessError"
      [] cls = "SubprocessError" -> "Exception"
      [] cls = "FileNotFoundError" -> "OSError"
      [] cls = "PermissionError" -> "OSError"
      [] cls = "TimeoutError" -> "OSError"
      [] cls = "BrokenPipeError" -> "OSError"
      [] cls = "OSError" -> "Exception"
      [] cls = "ModuleNotFoundError" -> "ImportError"
      [] cls = "ImportError" -> "Exception"
      [] cls = "JSONDecodeError" -> "ValueError"
      [] cls = "UnicodeDecodeError" -> "ValueError"
      [] cls = "UnicodeEncodeError" -> "ValueError"
      [] cls = "ValueError" -> "Exception"
      [] cls = "AttributeError" -> "Exception"
      [] cls = "TypeError" -> "Exception"
      [] cls = "Exception" -> "BaseException"
      [] OTHER -> "object"

RECURSIVE IsSubclass(_, _)
IsSubclass(cls, base) ==
    IF cls = base THEN TRUE
    ELSE IF cls \in {"object", "none"} THEN FALSE
    ELSE IsSubclass(Parent(cls), base)

\* An except clause naming the classes in bases catches e.
Catches(bases, e) == \E b \in bases : IsSubclass(e.cls, b)

(***************************************************************************)
(* Python operations handler uses on its argument.                         *)
(***************************************************************************)
\* bool(v): the truth value the if statements of lines 52 and 66 test.
Truthy(v) ==
    CASE v.t = "arr" -> v.a # <<>>
      [] v.t = "str" -> v.s # <<>>
      [] v.t = "obj" -> v.o # <<>>
      [] v.t = "num" -> v.n # 0
      [] v.t = "null" -> FALSE

\* iter(v) of the for statements of lines 53 and 67: the items, or the
\* TypeError a value that is not iterable raises.
Iterate(v) ==
    CASE v.t = "arr" -> [exc |-> NoExc, items |-> v.a]
      [] v.t = "str" -> [exc |-> NoExc, items |-> [i \in 1..Len(v.s) |-> Str(<<v.s[i]>>)]]
      [] v.t = "obj" -> [exc |-> NoExc, items |-> [i \in 1..Len(v.o) |-> Str(v.o[i].k)]]
      [] v.t = "num" -> [exc |-> Exc("TypeError", <<"'int' object is not iterable">>), items |-> <<>>]
      [] v.t = "null" -> [exc |-> Exc("TypeError", <<"'NoneType' object is not iterable">>), items |-> <<>>]

\* format(v) inside an f-string, for the item values the model draws
\* (strings, integers, None).
Format(v) ==
    CASE v.t = "str" -> v.s
      [] v.t = "num" -> Digits(v.n)
      [] v.t = "null" -> <<"None">>

RECURSIVE Lookup(_, _, _)
Lookup(o, key, default) ==
    IF o = <<>> THEN default
    ELSE IF o[Len(o)].k = key THEN o[Len(o)].v
    ELSE Lookup(SubSeq(o, 1, Len(o) - 1), key, default)

\* A lookup that falls back on the first member of the dict, whatever its
\* key, instead of the default.
DictGetFirst(a, key, default) ==
    IF a.t = "obj"
    THEN [exc |-> NoExc,
          v |-> Lookup(a.o, <<key>>, IF a.o = <<>> THEN default ELSE a.o[1].v)]
    ELSE [exc |-> Exc("AttributeError", <<"object has no attribute 'get'">>), v |-> Null]

\* args.get(key, default): a dict method; any other value has no get.
DictGet(a, key, default) ==
    IF a.t = "obj"
    THEN [exc |-> NoExc, v |-> Lookup(a.o, <<key>>, default)]
    ELSE [exc |-> Exc("AttributeError", <<"object has no attribute 'get'">>), v |-> Null]

(***************************************************************************)
(* The environment handler reads.                                          *)
(***************************************************************************)
\* str.lower() on the system names platform.system() gives.
Lower(name) ==
    CASE name = "Linux" -> "linux"
      [] name = "Windows" -> "windows"
      [] name = "Darwin" -> "darwin"
      [] OTHER -> name

\* subprocess.run(cmd, capture_output=True, text=True, timeout=limit,
\* check=check) on a command described by p: whether the binary is found
\* and may be executed, how long it runs, its exit status and its output.
SubprocessRun(p, limit, check) ==
    IF ~p.found
    THEN [exc |-> Exc("FileNotFoundError", <<"No such file or directory: 'node'">>), stdout |-> <<>>]
    ELSE IF ~p.executable
    THEN [exc |-> Exc("PermissionError", <<"Permission denied: 'node'">>), stdout |-> <<>>]
    ELSE IF p.duration > limit
    THEN [exc |-> Exc("TimeoutExpired", <<"Command '['node', '-v']' timed out">>), stdout |-> <<>>]
    ELSE IF check /\ p.returncode # 0
    THEN [exc |-> Exc("CalledProcessError", <<"Command '['node', '-v']' returned non-zero exit status">>), stdout |-> <<>>]
    ELSE [exc |-> NoExc, stdout |-> p.stdout]

ProbeTimeout == 5

\* The classes the except clause of line 13 names.
ProbeExcept == {"CalledProcessError", "FileNotFoundError", "TimeoutError"}

NotInstalled == <<"NOT-INSTALLED">>   \* the literal of line 14

\* Lines 11-14: the version, the sentinel, or the exception that leaves the
\* try statement.
NodeVersion(p) ==
    LET r == SubprocessRun(p, ProbeTimeout, FALSE)
    IN  IF r.exc = NoExc THEN [exc |-> NoExc, v |-> Strip(r.stdout)]
        ELSE IF Catches(ProbeExcept, r.exc) THEN [exc |-> NoExc, v |-> NotInstalled]
        ELSE [exc |-> r.exc, v |-> <<>>]

MB == 1024 * 1024

\* A conversion that rounds to the nearest megabyte instead of truncating.
UsedMbRounded(vm) == (vm.used + MB \div 2) \div MB

\* Lines 18-20.
UsedMb(vm) == vm.used \div MB
TotalMb(vm) == vm.total \div MB
FreeMb(vm) == vm.available \div MB

\* Line 21.
MemoryStatus(vm) ==
    <<"used ">> \o Digits(UsedMb(vm)) \o <<"MB / total ">> \o Digits(TotalMb(vm))
        \o <<"MB (free ">> \o Digits(FreeMb(vm)) \o <<"MB)">>

(***************************************************************************)
(* The report template (lines 27-72).                                      *)
(***************************************************************************)
FilesHeader == "## current workspace files"
HistoryHeader == "## experience library"
TasksHeader == "## pending tasks"
NonePlaceholder == <<"-", " ", "NONE">>   \* the placeholder line of lines 56 and 70

\* Lines 27-32.
EnvironmentSection(system_platform, node_version, memory_status, current_time) ==
    <<"# WuXing-Agent self status report", NL, NL>>
    \o <<"## live environment", NL>>
    \o <<"-", " ", "**platform**: ">> \o system_platform \o <<NL>>
    \o <<"-", " ", "**Node.js version**: ">> \o node_version \o <<NL>>
    \o <<"-", " ", "**memory**: ">> \o memory_status \o <<NL>>
    \o <<"-", " ", "**time**: ">> \o current_time \o <<NL, NL>>

\* Lines 34-49.
StaticSections ==
    <<"## core abilities", NL,
      "as a programming expert I can:", NL,
      "1. **file operations**", NL,
      "2. **code execution**", NL,
      "3. **skill internalisation**", NL,
      "4. **dependency management**", NL,
      "5. **external collaboration**", NL, NL,
      "## standard workflow", NL,
      "[fence]mermaid", NL,
      "graph LR", NL,
      "A[explore] --> B[code]", NL,
      "B --> C[verify]", NL,
      "C -->|failure| B", NL,
      "C -->|success| D[internalise]", NL,
      "[fence]", NL, NL>>

\* Lines 59-63.
HistorySection ==
    <<HistoryHeader, NL,
      "1. lesson one", NL,
      "2. lesson two", NL,
      "3. lesson three", NL,
      "4. lesson four", NL, NL>>

\* Line 72.
Closing == <<NL, "-", "-", "-", NL, "ask me anything">>

\* A file bullet written like a task bullet, without the backquotes.
FileBulletPlain(item) == <<"-", " ">> \o Format(item) \o <<NL>>

FileBullet(item) == <<"-", " ", Backtick>> \o Format(item) \o <<Backtick, NL>>   \* line 54
TaskBullet(item) == <<"-", " ">> \o Format(item) \o <<NL>>             \* line 68

\* Lines 52-56: the bullets of a truthy value, else the placeholder; the
\* for statement raises on a value that is not iterable.
FilesBody(v) ==
    IF Truthy(v)
    THEN LET it == Iterate(v)
         IN  [exc |-> it.exc,
              text |-> Concat([i \in 1..Len(it.items) |-> FileBullet(it.items[i])])]
    ELSE [exc |-> NoExc, text |-> NonePlaceholder \o <<NL>>]

\* A tasks section that writes nothing for an empty list.
TasksBodyNoPlaceholder(v) ==
    IF Truthy(v)
    THEN LET it == Iterate(v)
         IN  [exc |-> it.exc,
              text |-> Concat([i \in 1..Len(it.items) |-> TaskBullet(it.items[i])])]
    ELSE [exc |-> NoExc, text |-> <<>>]

\* Lines 66-70.
TasksBody(v) ==
    IF Truthy(v)
    THEN LET it == Iterate(v)
         IN  [exc |-> it.exc,
              text |-> Concat([i \in 1..Len(it.items) |-> TaskBullet(it.items[i])])]
    ELSE [exc |-> NoExc, text |-> NonePlaceholder \o <<NL>>]

(***************************************************************************)
(* handler (lines 3-74).  The result is the report, or the exception that  *)
(* leaves handler; the statements run in the order of the source, so the   *)
(* first one that raises decides.                                          *)
(***************************************************************************)
Raised(e) ==
    [exc |-> e, report |-> <<>>, node_version |-> <<>>, memory_status |-> <<>>]

handler(a, e) ==
    LET files == DictGet(a, "current_workspace_files", EmptyList)
        tasks == DictGet(a, "pending_tasks", EmptyList)
        system_platform == <<Lower(e.platform.system), " ", e.platform.arch>>
        node == NodeVersion(e.node)
        memory_status == MemoryStatus(e.vm)
        current_time == <<e.now>>
        fbody == FilesBody(files.v)
        tbody == TasksBody(tasks.v)
    IN  IF files.exc # NoExc THEN Raised(files.exc)
        ELSE IF e.platform.exc # NoExc THEN Raised(e.platform.exc)
        ELSE IF node.exc # NoExc THEN Raised(node.exc)
        ELSE IF e.vm.exc # NoExc THEN Raised(e.vm.exc)
        ELSE IF fbody.exc # NoExc THEN Raised(fbody.exc)
        ELSE IF tbody.exc # NoExc THEN Raised(tbody.exc)
        ELSE [exc |-> NoExc,
              report |->
                  EnvironmentSection(system_platform, node.v, memory_status, current_time)
                  \o StaticSections
                  \o <<FilesHeader, NL>> \o fbody.text \o <<NL>>
                  \o HistorySection
                  \o <<TasksHeader, NL>> \o tbody.text
                  \o Closing,
              node_version |-> node.v,
              memory_status |-> memory_status]

(***************************************************************************)
(* json.loads (line 84), on the characters of the text.  The keyword null  *)
(* and each key name are one symbol.                                       *)
(***************************************************************************)
DQ == "\""
Backslash == "\\"
JsonSpace == {" ", NL, "\t", "\r"}

RECURSIVE SkipWs(_)
SkipWs(s) == IF s # <<>> /\ Head(s) \in JsonSpace THEN SkipWs(Tail(s)) ELSE s

ParseFail == [ok |-> FALSE, v |-> Null, rest |-> <<>>]
Parsed(v, rest) == [ok |-> TRUE, v |-> v, rest |-> rest]

\* The characters of a string literal after its opening quote.
RECURSIVE ParseString(_, _)
ParseString(s, acc) ==
    IF s = <<>> THEN ParseFail
    ELSE IF Head(s) = DQ THEN Parsed(Str(acc), Tail(s))
    ELSE IF Head(s) = Backslash
    THEN IF Len(s) >= 2 /\ s[2] = "n" THEN ParseString(Tail(Tail(s)), Append(acc, NL))
         ELSE IF Len(s) >= 2 /\ s[2] \in {DQ, Backslash}
         THEN ParseString(Tail(Tail(s)), Append(acc, s[2]))
         ELSE ParseFail
    ELSE IF Head(s) \in {NL, "\t", "\r"} THEN ParseFail
    ELSE ParseString(Tail(s), Append(acc, Head(s)))

DigitValue(c) == CHOOSE d \in 0..9 : DigitChar[d + 1] = c
IsDigit(c) == \E d \in 0..9 : DigitChar[d + 1] = c

RECURSIVE ParseDigits(_, _)
ParseDigits(s, n) ==
    IF s # <<>> /\ IsDigit(Head(s))
    THEN ParseDigits(Tail(s), 10 * n + DigitValue(Head(s)))
    ELSE Parsed(Num(n), s)

\* dict[key] = v: a repeated key keeps its place and takes the new value.
Put(o, key, v) ==
    IF \E i \in 1..Len(o) : o[i].k = key
    THEN [i \in 1..Len(o) |-> IF o[i].k = key THEN [k |-> key, v |-> v] ELSE o[i]]
    ELSE Append(o, [k |-> key, v |-> v])

RECURSIVE ParseValue(_)
RECURSIVE ParseItems(_, _)
RECURSIVE ParseMembers(_, _)

\* The items of an array after "[" or ",": a value, then "," or "]".
ParseItems(s, acc) ==
    LET r == ParseValue(SkipWs(s))
        t == SkipWs(r.rest)
    IN  IF ~r.ok \/ t = <<>> THEN ParseFail
        ELSE IF Head(t) = "]" THEN Parsed(Arr(Append(acc, r.v)), Tail(t))
        ELSE IF Head(t) = "," THEN ParseItems(Tail(t), Append(acc, r.v))
        ELSE ParseFail

\* The members of an object after "{" or ",": "key" : value, then "," or "}".
ParseMembers(s, acc) ==
    LET s1 == SkipWs(s)
        k == IF s1 # <<>> /\ Head(s1) = DQ THEN ParseString(Tail(s1), <<>>) ELSE ParseFail
        s2 == SkipWs(k.rest)
        r == IF k.ok /\ s2 # <<>> /\ Head(s2) = ":" THEN ParseValue(SkipWs(Tail(s2))) ELSE ParseFail
        t == SkipWs(r.rest)
    IN  IF ~r.ok \/ t = <<>> THEN ParseFail
        ELSE IF Head(t) = "}" THEN Parsed(Obj(Put(acc, k.v.s, r.v)), Tail(t))
        ELSE IF Head(t) = "," THEN ParseMembers(Tail(t), Put(acc, k.v.s, r.v))
        ELSE ParseFail

ParseValue(s) ==
    IF s = <<>> THEN ParseFail
    ELSE IF Head(s) = DQ THEN ParseString(Tail(s), <<>>)
    ELSE IF Head(s) = "null" THEN Parsed(Null, Tail(s))
    ELSE IF Head(s) = "0" THEN Parsed(Num(0), Tail(s))
    ELSE IF IsDigit(Head(s)) THEN ParseDigits(s, 0)
    ELSE IF Head(s) = "["
    THEN IF SkipWs(Tail(s)) # <<>> /\ Head(SkipWs(Tail(s))) = "]"
         THEN Parsed(EmptyList, Tail(SkipWs(Tail(s))))
         ELSE ParseItems(Tail(s), <<>>)
    ELSE IF Head(s) = "{"
    THEN IF SkipWs(Tail(s)) # <<>> /\ Head(SkipWs(Tail(s))) = "}"
         THEN Parsed(EmptyDict, Tail(SkipWs(Tail(s))))
         ELSE ParseMembers(Tail(s), <<>>)
    ELSE ParseFail

\* json.loads(s): the value, or JSONDecodeError when s is not one JSON
\* value between optional whitespace.
JsonLoads(s) ==
    LET r == ParseValue(SkipWs(s))
    IN  IF r.ok /\ SkipWs(r.rest) = <<>>
        THEN [exc |-> NoExc, v |-> r.v]
        ELSE [exc |-> Exc("JSONDecodeError", <<"Expecting value">>), v |-> Null]

(***************************************************************************)
(* The process: module import (line 1) and the __main__ block (76-90).     *)
(***************************************************************************)
PsutilMissingMessage == <<"error: psutil is required, run pip install psutil">>   \* line 80
FailurePrefix == <<"report generation failed: ">>                                \* line 89

\* A wrapper that catches operating-system errors only.
TopLevelExceptOSError == {"OSError"}

\* The classes the except clause of line 88 names.
TopLevelExcept == {"Exception"}

\* What the interpreter does with an exception nothing catches: the
\* traceback on standard error, exit status 1.
Traceback(e) == <<"Traceback (most recent call last):", NL, e.cls, ": ">> \o e.msg \o <<NL>>

Uncaught(e) ==
    /\ stderr' = stderr \o Traceback(e)
    /\ exitCode' = 1
    /\ pc' = "exited"
    /\ exc' = e

\* The parts of a text a failing write may have put on the stream before
\* it raised.
WrittenBeforeFailure(text) ==
    {SubSeq(text, 1, k) : k \in {0, Len(text) \div 2, Len(text)}}

NoEnv == [platform |-> [exc |-> NoExc, system |-> "", arch |-> ""],
          node |-> [found |-> FALSE, executable |-> FALSE, duration |-> 0,
                    returncode |-> 0, stdout |-> <<>>],
          vm |-> [exc |-> NoExc, used |-> 0, total |-> 0, available |-> 0],
          now |-> ""]

\* Line 1: import sys, json, datetime, platform, subprocess, psutil.
ImportModules ==
    /\ pc = "import"
    /\ \E installed \in BOOLEAN :
          IF installed
          THEN /\ modules' = {"sys", "json", "datetime", "platform", "subprocess", "psutil"}
               /\ pc' = "main"
               /\ UNCHANGED <<exc, stderr, exitCode>>
          ELSE /\ modules' = {"sys", "json", "datetime", "platform", "subprocess"}
               /\ Uncaught(Exc("ModuleNotFoundError", <<"No module named 'psutil'">>))
    /\ UNCHANGED <<stdin, raw, args, env, res, stdout, args2, env2, res2>>

\* Lines 77-81: the import of a module already imported succeeds.
MainImportPsutil ==
    /\ pc = "main"
    /\ IF "psutil" \in modules
       THEN /\ pc' = "read"
            /\ UNCHANGED <<stderr, exitCode>>
       ELSE /\ stderr' = stderr \o PsutilMissingMessage \o <<NL>>
            /\ exitCode' = 1
            /\ pc' = "exited"
    /\ UNCHANGED <<modules, stdin, raw, args, env, res, exc, stdout, args2, env2, res2>>

\* Line 83.
ReadStdin ==
    /\ pc = "read"
    /\ raw' = Strip(stdin)
    /\ pc' = "parse"
    /\ UNCHANGED <<modules, stdin, args, env, res, exc, stdout, stderr, exitCode,
                   args2, env2, res2>>

\* A line 84 that swallows the parse error and goes on with an empty object.
ParseArgsLenient ==
    /\ pc = "parse"
    /\ LET r == IF raw # <<>> THEN JsonLoads(raw) ELSE [exc |-> NoExc, v |-> EmptyDict]
       IN  args' = IF r.exc = NoExc THEN r.v ELSE EmptyDict
    /\ pc' = "call"
    /\ UNCHANGED <<modules, stdin, raw, env, res, exc, stdout, stderr, exitCode,
                   args2, env2, res2>>

\* A line 84 without the test of raw: json.loads on every input.
ParseArgsStrict ==
    /\ pc = "parse"
    /\ LET r == JsonLoads(raw)
       IN  IF r.exc = NoExc
           THEN /\ args' = r.v
                /\ pc' = "call"
                /\ UNCHANGED <<exc, stderr, exitCode>>
           ELSE /\ Uncaught(r.exc)
                /\ UNCHANGED args
    /\ UNCHANGED <<modules, stdin, raw, env, res, stdout, args2, env2, res2>>

\* Line 84, outside the try statement of line 85.
ParseArgs ==
    /\ pc = "parse"
    /\ LET r == IF raw # <<>> THEN JsonLoads(raw) ELSE [exc |-> NoExc, v |-> EmptyDict]
       IN  IF r.exc = NoExc
           THEN /\ args' = r.v
                /\ pc' = "call"
                /\ UNCHANGED <<exc, stderr, exitCode>>
           ELSE /\ Uncaught(r.exc)
                /\ UNCHANGED args
    /\ UNCHANGED <<modules, stdin, raw, env, res, stdout, args2, env2, res2>>

\* Lines 85-86: the call of handler, in an environment e.
CallHandlerIn(e) ==
    /\ env' = e
    /\ res' = handler(args, e)
    /\ exc' = res'.exc
    /\ pc' = IF res'.exc = NoExc THEN "print" ELSE "except"

\* Line 87: print(result) writes the report and a line break; a write that
\* fails (the stream cannot encode the text, or the stream fails) raises
\* inside the try statement.  After line 87 the script ends: exit status 0.
PrintOutcomes ==
    {[exc |-> NoExc, written |-> res.report \o <<NL>>]}
    \cup {[exc |-> Exc("UnicodeEncodeError", <<"codec can't encode character">>),
           written |-> <<>>]}
    \cup {[exc |-> Exc("BrokenPipeError", <<"Broken pipe">>), written |-> w] :
              w \in WrittenBeforeFailure(res.report)}

PrintResult ==
    /\ pc = "print"
    /\ \E o \in PrintOutcomes :
          /\ stdout' = stdout \o o.written
          /\ exc' = o.exc
          /\ IF o.exc = NoExc
             THEN exitCode' = 0 /\ pc' = "exited"
             ELSE exitCode' = exitCode /\ pc' = "except"
    /\ UNCHANGED <<modules, stdin, raw, args, env, res, stderr, args2, env2, res2>>

\* An except clause that reports the failure and forgets sys.exit(1).
ExceptClauseNoExit ==
    /\ pc = "except"
    /\ stderr' = stderr \o FailurePrefix \o exc.msg \o <<NL>>
    /\ exitCode' = 0
    /\ pc' = "exited"
    /\ UNCHANGED <<modules, stdin, raw, args, env, res, exc, stdout, args2, env2, res2>>

\* Lines 88-90.
ExceptClause ==
    /\ pc = "except"
    /\ IF Catches(TopLevelExcept, exc)
       THEN /\ stderr' = stderr \o FailurePrefix \o exc.msg \o <<NL>>
            /\ exitCode' = 1
            /\ pc' = "exited"
            /\ UNCHANGED exc
       ELSE Uncaught(exc)
    /\ UNCHANGED <<modules, stdin, raw, args, env, res, stdout, args2, env2, res2>>

(***************************************************************************)
(* The inputs the model draws.                                             *)
(***************************************************************************)
SeqsUpTo(S, n) == UNION {[1..k -> S] : k \in 0..n}

Prefixes(s) == {SubSeq(s, 1, k) : k \in 0..Len(s)}

RECURSIVE Join(_, _)
Join(ss, sep) ==
    IF ss = <<>> THEN <<>>
    ELSE IF Len(ss) = 1 THEN ss[1]
    ELSE ss[1] \o sep \o Join(Tail(ss), sep)

EscapeChar(c) ==
    IF c = NL THEN <<Backslash, "n">>
    ELSE IF c \in {DQ, Backslash} THEN <<Backslash, c>>
    ELSE <<c>>

DumpString(s) == <<DQ>> \o Concat([i \in 1..Len(s) |-> EscapeChar(s[i])]) \o <<DQ>>

\* The JSON text of a value, as json.dumps writes it.
RECURSIVE JsonDumps(_)
JsonDumps(v) ==
    CASE v.t = "str" -> DumpString(v.s)
      [] v.t = "num" -> Digits(v.n)
      [] v.t = "null" -> <<"null">>
      [] v.t = "arr" ->
            <<"[">> \o Join([i \in 1..Len(v.a) |-> JsonDumps(v.a[i])], <<",", " ">>) \o <<"]">>
      [] v.t = "obj" ->
            <<"{">>
            \o Join([i \in 1..Len(v.o) |->
                        DumpString(v.o[i].k) \o <<":", " ">> \o JsonDumps(v.o[i].v)],
                    <<",", " ">>)
            \o <<"}">>

Member(key, v) == [k |-> <<key>>, v |-> v]
StrList(ts) == Arr([i \in 1..Len(ts) |-> Str(ts[i])])

StrChars == {"a", "b", NL}
Texts == SeqsUpTo(StrChars, MaxStrLen)
TextLists == SeqsUpTo(Texts, MaxFiles)

\* The values standard input carries in the runs of the process.
ProcValues ==
    { EmptyDict,
      Obj(<<Member("current_workspace_files", StrList(<<<<"a">>, <<"b", "a">>>>))>>),
      Obj(<<Member("pending_tasks", StrList(<<<<"a", NL>>>>)),
            Member("current_workspace_files", StrList(<<<<"b">>>>))>>),
      Obj(<<Member("unknown", Num(10)), Member("pending_tasks", EmptyList)>>),
      Obj(<<Member("current_workspace_files", Num(5))>>),
      Obj(<<Member("current_workspace_files", Null)>>),
      Obj(<<Member("pending_tasks", Str(<<"a", "b">>))>>),
      EmptyList,
      StrList(<<<<"a">>>>),
      Num(7),
      Null,
      Str(<<"a">>) }

Pads == {<<>>, <<NL>>, <<" ", NL>>}

Stdins ==
    {lead \o body \o trail :
        lead \in {<<>>, <<" ">>}, trail \in Pads,
        body \in UNION {Prefixes(JsonDumps(v)) : v \in ProcValues}}

OkPlatform == [exc |-> NoExc, system |-> "Linux", arch |-> "64bit"]
Platforms ==
    { OkPlatform,
      [exc |-> NoExc, system |-> "Windows", arch |-> "32bit"],
      [exc |-> Exc("OSError", <<"platform introspection failed">>), system |-> "", arch |-> ""] }

OkNode == [found |-> TRUE, executable |-> TRUE, duration |-> 0, returncode |-> 0,
           stdout |-> <<"v18.0.0", NL>>]
Nodes ==
    { OkNode,
      [OkNode EXCEPT !.stdout = <<"v20.1.0", NL>>],
      [OkNode EXCEPT !.returncode = 1, !.stdout = <<>>],
      [OkNode EXCEPT !.returncode = 2, !.stdout = <<"usage", NL>>],
      [OkNode EXCEPT !.found = FALSE],
      [OkNode EXCEPT !.executable = FALSE],
      [OkNode EXCEPT !.duration = ProbeTimeout + 1] }

MemBytes == {k * MB + r : k \in 0..MaxMemUnits, r \in {0, MB - 1}} \cup {12 * MB + 5}
Readings ==
    {[exc |-> NoExc, used |-> u, total |-> t, available |-> f] :
        u \in MemBytes, t \in MemBytes, f \in MemBytes}
OkVm == [exc |-> NoExc, used |-> MB + 1, total |-> 12 * MB + 5, available |-> 2 * MB]
FailedVm == [exc |-> Exc("OSError", <<"memory introspection failed">>),
             used |-> 0, total |-> 0, available |-> 0]

Times == {"2026-11-05 Thursday", "2026-11-06 Friday"}

OkEnv == [platform |-> OkPlatform, node |-> OkNode, vm |-> OkVm, now |-> "2026-11-05 Thursday"]

ProcEnvs ==
    {[platform |-> p, node |-> n, vm |-> v, now |-> "2026-11-05 Thursday"] :
        p \in Platforms, n \in Nodes, v \in {OkVm, FailedVm}}

NoRes == Raised(NoExc)

(***************************************************************************)
(* Spec: one run of the script, for every text on standard input.          *)
(***************************************************************************)
Init ==
    /\ pc = "import"
    /\ modules = {}
    /\ stdin \in Stdins
    /\ raw = <<>>
    /\ args = Null
    /\ env = NoEnv
    /\ res = NoRes
    /\ exc = NoExc
    /\ stdout = <<>>
    /\ stderr = <<>>
    /\ exitCode = -1
    /\ args2 = Null
    /\ env2 = NoEnv
    /\ res2 = NoRes

CallHandler ==
    /\ pc = "call"
    /\ \E e \in ProcEnvs : CallHandlerIn(e)
    /\ UNCHANGED <<modules, stdin, raw, args, stdout, stderr, exitCode, args2, env2, res2>>

Next ==
    \/ ImportModules
    \/ MainImportPsutil
    \/ ReadStdin
    \/ ParseArgs
    \/ CallHandler
    \/ PrintResult
    \/ ExceptClause

Spec == Init /\ [][Next]_vars

(***************************************************************************)
(* SpecHandler: one call of handler, for arguments and environments drawn  *)
(* from bounded sets: every list of texts with the default environment,    *)
(* and a few arguments with every environment.                             *)
(***************************************************************************)
FilesArgs == {Obj(<<Member("current_workspace_files", StrList(fs))>>) : fs \in TextLists}
TasksArgs == {Obj(<<Member("pending_tasks", StrList(ts))>>) : ts \in TextLists}
FewArgs ==
    { EmptyDict,
      Obj(<<Member("current_workspace_files", EmptyList), Member("pending_tasks", EmptyList)>>),
      Obj(<<Member("unknown", Num(10))>>),
      Obj(<<Member("current_workspace_files", StrList(<<<<"a">>>>)),
            Member("pending_tasks", StrList(<<<<"b">>>>))>>) }

HandlerEnvs ==
    {[platform |-> OkPlatform, node |-> n, vm |-> v, now |-> "2026-11-05 Thursday"] :
        n \in Nodes, v \in Readings}

InitHandler ==
    /\ pc = "call"
    /\ modules = {"sys", "json", "datetime", "platform", "subprocess", "psutil"}
    /\ \/ args \in FilesArgs \cup TasksArgs /\ env = OkEnv
       \/ args \in FewArgs /\ env \in HandlerEnvs
    /\ stdin = <<>>
    /\ raw = <<>>
    /\ res = NoRes
    /\ exc = NoExc
    /\ stdout = <<>>
    /\ stderr = <<>>
    /\ exitCode = -1
    /\ args2 = Null
    /\ env2 = NoEnv
    /\ res2 = NoRes

HandlerCall ==
    /\ pc = "call"
    /\ CallHandlerIn(env)
    /\ UNCHANGED <<modules, stdin, raw, args, stdout, stderr, exitCode, args2, env2, res2>>

SpecHandler == InitHandler /\ [][HandlerCall]_vars

(***************************************************************************)
(* SpecPair: two calls of handler, to compare their reports.               *)
(***************************************************************************)
PairArgs ==
    { EmptyDict,
      Obj(<<Member("unknown", Num(10))>>),
      Obj(<<Member("current_workspace_files", StrList(<<<<"a">>>>))>>),
      Obj(<<Member("unknown", StrList(<<<<"b">>>>)),
            Member("current_workspace_files", StrList(<<<<"a">>>>))>>),
      Obj(<<Member("current_workspace_files", StrList(<<<<"a">>>>)),
            Member("other", Null)>>),
      Obj(<<Member("pending_tasks", StrList(<<<<"a">>>>))>>) }

PairEnvs ==
    {[platform |-> OkPlatform, node |-> n, vm |-> v, now |-> t] :
        n \in {OkNode, [OkNode EXCEPT !.found = FALSE]},
        v \in {OkVm, [OkVm EXCEPT !.used = 2 * MB]},
        t \in Times}

InitPair ==
    /\ pc = "call"
    /\ modules = {"sys", "json", "datetime", "platform", "subprocess", "psutil"}
    /\ args \in PairArgs
    /\ args2 \in PairArgs
    /\ env \in PairEnvs
    /\ env2 \in PairEnvs
    /\ stdin = <<>>
    /\ raw = <<>>
    /\ res = NoRes
    /\ res2 = NoRes
    /\ exc = NoExc
    /\ stdout = <<>>
    /\ stderr = <<>>
    /\ exitCode = -1

PairCall ==
    /\ pc = "call"
    /\ CallHandlerIn(env)
    /\ res2' = handler(args2, env2)
    /\ UNCHANGED <<modules, stdin, raw, args, stdout, stderr, exitCode, args2, env2>>

SpecPair == InitPair /\ [][PairCall]_vars

(***************************************************************************)
(* What the claims speak of.                                               *)
(***************************************************************************)
\* handler was called in this run, and returned a report.
HandlerCalled == env # NoEnv
HandlerReturned == pc # "call" /\ HandlerCalled /\ res.exc = NoExc

\* The value an input object gives a field, absent fields being empty.
FieldOf(a, key) ==
    IF \E i \in 1..Len(a.o) : a.o[i].k = <<key>>
    THEN a.o[CHOOSE i \in 1..Len(a.o) : a.o[i].k = <<key>>].v
    ELSE EmptyList

IsTextList(v) == v.t = "arr" /\ \A i \in 1..Len(v.a) : v.a[i].t = "str"

\* The lines of a report between the line of one header and the line of
\* the next (or the end of the report).
LineOf(ls, header) == CHOOSE i \in 1..Len(ls) : ls[i] = <<header>>
FilesSectionOf(report) ==
    LET ls == Lines(report)
    IN  SubSeq(ls, LineOf(ls, FilesHeader) + 1, LineOf(ls, HistoryHeader) - 1)
TasksSectionOf(report) ==
    LET ls == Lines(report)
    IN  SubSeq(ls, LineOf(ls, TasksHeader) + 1, Len(ls))

IsBulletLine(l) == Len(l) >= 2 /\ l[1] = "-" /\ l[2] = " "
BulletsOf(section) == SelectSeq(section, IsBulletLine)

\* The natural numbers written in a line, in order.
RECURSIVE NumbersIn(_, _, _)
NumbersIn(l, n, inNumber) ==
    IF l = <<>> THEN IF inNumber THEN <<n>> ELSE <<>>
    ELSE IF IsDigit(Head(l)) THEN NumbersIn(Tail(l), 10 * n + DigitValue(Head(l)), TRUE)
    ELSE (IF inNumber THEN <<n>> ELSE <<>>) \o NumbersIn(Tail(l), 0, FALSE)

WordsIn(l) == SelectSeq(l, LAMBDA c : ~IsDigit(c))

\* The lines of the environment section that hold the memory reading and
\* the timestamp.
MemoryLineNo == 6
TimeLineNo == 7

\* The lines of a report with the memory and timestamp values cut out.
Masked(report) ==
    LET ls == Lines(report)
    IN  [i \in 1..Len(ls) |->
            IF i \in {MemoryLineNo, TimeLineNo} THEN SubSeq(ls[i], 1, 3) ELSE ls[i]]

ProbeFailed(n) == ~n.found \/ n.returncode # 0 \/ n.duration > 5

(***************************************************************************)
(* C1.  Whenever the version probe fails (binary missing, non-zero exit    *)
(* status, or the 5-second limit expires), handler returns a report and    *)
(* the report gives the "not installed" sentinel as the runtime version.   *)
(***************************************************************************)
C1_ProbeFailureGivesSentinel ==
    (pc # "call" /\ ProbeFailed(env.node))
        => /\ res.exc = NoExc
           /\ res.node_version = NotInstalled
           /\ Lines(res.report)[5] = <<"-", " ", "**Node.js version**: ">> \o NotInstalled

(***************************************************************************)
(* C2.  When psutil is unavailable the process writes the fixed message    *)
(* to standard error exactly once and exits with status 1, before reading  *)
(* standard input or generating anything.                                  *)
(***************************************************************************)
C2_MissingPsutilFixedMessage ==
    (pc = "exited" /\ "psutil" \notin modules)
        => /\ stderr = PsutilMissingMessage \o <<NL>>
           /\ exitCode = 1
           /\ raw = <<>> /\ args = Null /\ ~HandlerCalled /\ stdout = <<>>

(***************************************************************************)
(* C3.  Every failure raised during report generation (by handler or by    *)
(* printing the report) is caught by the wrapper: the process writes the   *)
(* failure prefix followed by the failure's message to standard error and  *)
(* exits with status 1, and nothing else reaches standard error.           *)
(***************************************************************************)
C3_GenerationFailureReported ==
    (pc = "exited" /\ HandlerCalled /\ exc # NoExc)
        => /\ stderr = FailurePrefix \o exc.msg \o <<NL>>
           /\ exitCode = 1

C3_Witness ==
    /\ pc = "exited"
    /\ exc.cls = "TimeoutExpired"
    /\ exitCode = 1
    /\ stderr = FailurePrefix \o exc.msg \o <<NL>>

Unparseable(text) == JsonLoads(text).exc # NoExc

RejectedWithoutCall ==
    /\ pc \notin {"call", "print", "except"}
    /\ ~HandlerCalled
    /\ pc = "exited" => (exitCode # 0 /\ stderr # <<>>)

(***************************************************************************)
(* C4.  Given malformed JSON on standard input (a text that is not empty   *)
(* and is not a JSON value), the process exits with a nonzero status and   *)
(* a non-empty standard error, and handler is never invoked.               *)
(***************************************************************************)
C4_MalformedInputRejected ==
    (stdin # <<>> /\ Unparseable(stdin)) => RejectedWithoutCall

\* C4 as amended: the same, for a text that is still not empty after its
\* leading and trailing whitespace is removed, and is not a JSON value.
C4_NonBlankMalformedInputRejected ==
    (Strip(stdin) # <<>> /\ Unparseable(stdin)) => RejectedWithoutCall

C4_Witness ==
    /\ pc = "exited"
    /\ "psutil" \in modules
    /\ Strip(stdin) # <<>>
    /\ Unparseable(stdin)
    /\ exc.cls = "JSONDecodeError"
    /\ exitCode = 1

PathBullet(path) == <<"-", " ", Backtick>> \o path \o <<Backtick>>

FilesListedVerbatim ==
    LET paths == FieldOf(args, "current_workspace_files").a
        section == FilesSectionOf(res.report)
    IN  /\ BulletsOf(section) = [i \in 1..Len(paths) |-> PathBullet(paths[i].s)]
        /\ \A i \in 1..Len(section) : section[i] # NonePlaceholder

NonEmptyPathList ==
    /\ args.t = "obj"
    /\ IsTextList(FieldOf(args, "current_workspace_files"))
    /\ FieldOf(args, "current_workspace_files") # EmptyList

(***************************************************************************)
(* C5.  For a non-empty current_workspace_files of N path strings, the     *)
(* files section of the report holds exactly N bullet lines, the i-th one  *)
(* the i-th path between backquotes, and no placeholder line.              *)
(***************************************************************************)
C5_FilesListedVerbatim ==
    (HandlerReturned /\ NonEmptyPathList) => FilesListedVerbatim

NoLineBreakInPaths ==
    \A i \in 1..Len(FieldOf(args, "current_workspace_files").a) :
        \A j \in 1..Len(FieldOf(args, "current_workspace_files").a[i].s) :
            FieldOf(args, "current_workspace_files").a[i].s[j] # NL

\* C5 as amended: the same, for paths that hold no line break.
C5_SingleLinePathsListedVerbatim ==
    (HandlerReturned /\ NonEmptyPathList /\ NoLineBreakInPaths) => FilesListedVerbatim

C5_Witness ==
    /\ HandlerReturned
    /\ NonEmptyPathList
    /\ FieldOf(args, "current_workspace_files") = StrList(<<<<"b", "a">>, <<"a">>>>)
    /\ BulletsOf(FilesSectionOf(res.report))
           = <<PathBullet(<<"b", "a">>), PathBullet(<<"a">>)>>

BothEmpty ==
    /\ args.t = "obj"
    /\ FieldOf(args, "current_workspace_files") = EmptyList
    /\ FieldOf(args, "pending_tasks") = EmptyList

(***************************************************************************)
(* C6.  When current_workspace_files and pending_tasks are both empty or   *)
(* absent, the files section and the tasks section of the report each      *)
(* hold the placeholder line exactly once and no other bullet.             *)
(***************************************************************************)
C6_EmptyListsGivePlaceholder ==
    (HandlerReturned /\ BothEmpty)
        => /\ BulletsOf(FilesSectionOf(res.report)) = <<NonePlaceholder>>
           /\ BulletsOf(TasksSectionOf(res.report)) = <<NonePlaceholder>>

C6_Witness ==
    /\ HandlerReturned
    /\ args = Obj(<<Member("unknown", Num(10))>>)
    /\ BulletsOf(TasksSectionOf(res.report)) = <<NonePlaceholder>>

ValidReading(vm) ==
    /\ vm.used >= 0 /\ vm.available >= 0
    /\ vm.total >= vm.used /\ vm.total >= vm.available

(***************************************************************************)
(* C7.  For a valid memory reading (total >= used, total >= available)     *)
(* the memory line holds three integers: used, total and available bytes   *)
(* each divided by 1,048,576 and truncated, in the order used, total,      *)
(* free; and the total is at least the used and at least the free figure.  *)
(***************************************************************************)
C7_MemoryLine ==
    (HandlerReturned /\ ValidReading(env.vm))
        => LET line == Lines(res.report)[MemoryLineNo]
               nums == NumbersIn(line, 0, FALSE)
           IN  /\ nums = <<env.vm.used \div 1048576, env.vm.total \div 1048576,
                           env.vm.available \div 1048576>>
               /\ WordsIn(line) = <<"-", " ", "**memory**: ", "used ", "MB / total ",
                                    "MB (free ", "MB)">>
               /\ nums[2] >= nums[1] /\ nums[2] >= nums[3]

C7_Witness ==
    /\ HandlerReturned
    /\ env.vm.used = MB - 1 /\ env.vm.total = 12 * MB + 5 /\ env.vm.available = 2 * MB
    /\ NumbersIn(Lines(res.report)[MemoryLineNo], 0, FALSE) = <<0, 12, 2>>

BothReturned == pc # "call" /\ res.exc = NoExc /\ res2.exc = NoExc

SameFields ==
    /\ args.t = "obj" /\ args2.t = "obj"
    /\ FieldOf(args, "current_workspace_files") = FieldOf(args2, "current_workspace_files")
    /\ FieldOf(args, "pending_tasks") = FieldOf(args2, "pending_tasks")

SamePlatformAndRuntime ==
    env.platform = env2.platform /\ res.node_version = res2.node_version

(***************************************************************************)
(* C8.  The report depends only on the two recognised fields and on the    *)
(* environment: two calls whose inputs agree on current_workspace_files    *)
(* and pending_tasks (whatever other keys they carry) and that observe the *)
(* same platform, runtime version, memory reading and timestamp return     *)
(* the same report; with other timestamps or memory readings the reports   *)
(* differ in the values of the memory and timestamp lines only.            *)
(***************************************************************************)
C8_ReportDependsOnFieldsAndEnvironment ==
    (BothReturned /\ SameFields /\ SamePlatformAndRuntime)
        => /\ Masked(res.report) = Masked(res2.report)
           /\ (env.vm = env2.vm /\ env.now = env2.now) => res.report = res2.report

C8_Witness ==
    /\ BothReturned /\ SameFields /\ SamePlatformAndRuntime
    /\ args # args2
    /\ args.o # <<>> /\ args.o[1].k = <<"unknown">>
    /\ env.now # env2.now /\ env.vm # env2.vm
    /\ res.report # res2.report
    /\ Masked(res.report) = Masked(res2.report)

EmptyInputIsEmptyObject ==
    (pc \in {"call", "print", "except"} \/ (pc = "exited" /\ "psutil" \in modules))
        /\ Strip(stdin) = <<>>
        => args = EmptyDict /\ (pc = "exited" => HandlerCalled)

ReportDelivered ==
    /\ stdout = res.report \o <<NL>>
    /\ exitCode = 0
    /\ stderr = <<>>

(***************************************************************************)
(* C9.  On success (the input parses, or is empty and is treated as an     *)
(* empty object, and handler returns a report) the report is written to    *)
(* standard output, the process exits with status 0 and nothing is         *)
(* written to standard error.                                              *)
(***************************************************************************)
C9_SuccessDeliversReport ==
    /\ EmptyInputIsEmptyObject
    /\ (pc = "exited" /\ HandlerReturned) => ReportDelivered

\* C9 as amended: the same, when in addition the write of the report to
\* standard output does not fail.
C9_SuccessfulWriteDeliversReport ==
    /\ EmptyInputIsEmptyObject
    /\ (pc = "exited" /\ HandlerReturned /\ exc = NoExc) => ReportDelivered

C9_Witness ==
    /\ pc = "exited"
    /\ stdin = <<" ", NL>>
    /\ args = EmptyDict
    /\ HandlerReturned
    /\ exc = NoExc
    /\ ReportDelivered

EndsInSuccess ==
    /\ exitCode = 0
    /\ HandlerReturned
    /\ stdout = res.report \o <<NL>>

EndsInFailure ==
    /\ exitCode # 0
    /\ stderr # <<>>
    /\ stdout = <<>>

(***************************************************************************)
(* C10.  Every run ends in exactly one of two ways: exit status 0 with the *)
(* complete report on standard output, or a nonzero exit status with a     *)
(* non-empty standard error and no report text on standard output.         *)
(***************************************************************************)
C10_TwoOutcomes ==
    pc = "exited" => (EndsInSuccess \/ EndsInFailure)

WriteFailed == HandlerReturned /\ exc # NoExc

EndsInWriteFailure ==
    /\ exitCode # 0
    /\ stderr # <<>>
    /\ WriteFailed
    /\ stdout \in Prefixes(res.report)

\* C10 as amended: a run that fails while writing the report to standard
\* output may leave some or all of the report text there; every other
\* failing run leaves standard output empty.
C10_TwoOutcomesUnlessWriteFails ==
    pc = "exited" => (EndsInSuccess \/ EndsInFailure \/ EndsInWriteFailure)

C10_Witness ==
    /\ pc = "exited"
    /\ exc.cls = "BrokenPipeError"
    /\ stdout # <<>>
    /\ stdout # res.report
    /\ exitCode = 1

====
